---- MODULE Spec2Model ----
(***************************************************************************)
(* Model of the paul-bot poll aggregate.                                   *)
(*                                                                         *)
(* Part I  : Option's vote protocol (src/poll/option.py): add_vote,        *)
(*           remove_vote and toggle_vote, each split at its awaits.  The   *)
(*           store call of an await takes effect in the database in one    *)
(*           step and the coroutine resumes in a later one, so other       *)
(*           coroutines may run in between.                                *)
(* Part II : the lifecycle scheduler of Paul                               *)
(*           (src/paul_bot/presentation/paul.py): on_ready and             *)
(*           __load_polls, the poll command's repeat_poll and new_poll,    *)
(*           __poll_close_task and close_poll_now, over a discrete clock.  *)
(*           Poll itself is not part of the sources at hand: its close(),  *)
(*           is_expired, create_poll, fetch_polls and new_option follow    *)
(*           the specification's description of them.                      *)
(* Part III: the requests of the users on a poll: the options converter    *)
(*           parse_options (src/paul_bot/presentation/converters.py),      *)
(*           Paul.toggle_vote and Paul.add_poll_option, and the failures   *)
(*           of the message transport in __update_poll_message.            *)
(***************************************************************************)
EXTENDS Integers, Sequences, FiniteSets, TLC

\* ------------------------------------------------------------------ bounds
NumOptions == 2
NumVoters == 2
NumTasks == 2
MaxExpires == 2         \* expiry times a user or a stored poll may carry: 1..MaxExpires
MaxInterval == 1        \* repeat intervals: 1..MaxInterval
MaxRepeatCount == 2     \* repeat counts: 1..MaxRepeatCount
MaxForever == 1         \* rounds modelled of a repeat loop without a count
MaxStored == 1          \* polls persisted before the process starts
MaxReady == 1           \* on_ready events of the lifecycle
MaxReconnects == 1      \* on_ready events after the first, at startup
MaxCommands == 1        \* poll commands
MaxSegments == 25       \* option labels a poll command may be given

\* Optional[...] = None
None == -1

\* parse_options: if len(result) > 23
MaxParsedOptions == 23
\* parse_options: if len(option) > 253
MaxLabelLength == 253
\* Poll.MAX_OPTIONS, the cap the option parser enforces
MAX_OPTIONS == MaxParsedOptions

Options == 1..NumOptions
Voters == 1..NumVoters
Tasks == 1..NumTasks

VARIABLES
    allow_multiple_votes,   \* Poll.allow_multiple_votes of the one poll voted on
    votes,                  \* Option.__votes of every option of that poll
    rows,                   \* the "votes" table: set of <<option_id, voter_id>>
    tasks,                  \* the vote coroutines: call, position, snapshot at call
    hist,                   \* the last completed toggle_vote calls (see Recorded)
    now,                    \* the wall clock
    stored,                 \* the "polls" table: poll id -> [expires, closed]
    polls,                  \* the Poll objects of the process, in creation order
    total_poll_count,       \* Paul.__total_poll_count
    closed_poll_count,      \* Paul.__closed_poll_count
    on_ready_triggered,     \* Paul.__on_ready_triggered
    readies,                \* the on_ready coroutines
    loops,                  \* the repeat_poll coroutines
    commands,               \* the poll commands received: labels given, outcome
    options,                \* len(poll.options) of the poll options are added to
    option_rows             \* the "options" table: number of rows of that poll

voteVars == <<allow_multiple_votes, votes, rows, tasks, hist>>

lifeVars == <<now, stored, polls, total_poll_count, closed_poll_count,
              on_ready_triggered, readies, loops>>

adapterVars == <<commands, options, option_rows>>

vars == <<allow_multiple_votes, votes, rows, tasks, hist, now, stored, polls,
          total_poll_count, closed_poll_count, on_ready_triggered, readies,
          loops, commands, options, option_rows>>

\* ------------------------------------------------------------- store, sets
sql_delete_every_option(rs, o, v) == {r \in rs : r[2] # v}

\* await sql.delete(pool, "votes", option_id=..., voter_id=...)
sql_delete(rs, o, v) == rs \ {<<o, v>>}

votes_discard_nothing(S, v) == S

\* self.__votes.discard(voter_id)
votes_discard(S, v) == S \ {v}

\* await sql.insert.one(pool, "votes", on_conflict="DO NOTHING", ...)
sql_insert_one(rs, o, v) == rs \cup {<<o, v>>}

\* self.__votes.add(voter_id)
votes_add(S, v) == S \cup {v}

\* ------------------------------------------------------------ control flow
\* The position a coroutine is suspended at:
\*   "delete"  : sql.delete sent, not yet executed by the database
\*   "discard" : sql.delete executed, the coroutine not yet resumed
\*   "insert"  : sql.insert.one sent, not yet executed by the database
\*   "add"     : sql.insert.one executed, the coroutine not yet resumed
\*   "done"    : the call has returned
\* cur is the option whose remove_vote is running; rvf tells whether that
\* remove_vote was called from Poll.remove_votes_from (inside add_vote).
Frame(pc, cur, rvf) == [pc |-> pc, cur |-> cur, rvf |-> rvf]

\* remove_vote runs up to its first await: the delete on its own option.
remove_vote_entry(o) == Frame("delete", o, FALSE)

\* Poll.remove_votes_from(voter_id): for option in self.options:
\* await option.remove_vote(voter_id).  It starts at the first option.
remove_votes_from_entry == Frame("delete", 1, TRUE)

\* Poll.remove_votes_from: after the remove_vote on option k, go on to the
\* next option, or return to add_vote, which sends its insert.
remove_votes_from_next(k) ==
    IF k < NumOptions THEN Frame("delete", k + 1, TRUE) ELSE Frame("insert", 0, FALSE)

add_vote_entry_always_insert(multi) == Frame("insert", 0, FALSE)

\* add_vote up to its first await: remove_votes_from on a single-vote poll,
\* the insert otherwise.
add_vote_entry(multi) ==
    IF ~multi THEN remove_votes_from_entry ELSE Frame("insert", 0, FALSE)

toggle_vote_entry_never_remove(S, o, v, multi) == add_vote_entry(multi)

\* toggle_vote: if voter_id in self.votes: remove_vote else: add_vote
toggle_vote_entry(S, o, v, multi) ==
    IF v \in S THEN remove_vote_entry(o) ELSE add_vote_entry(multi)

\* Poll.is_expired: the clock has passed expires, or close() has been called.
is_expired(p, t) == p.closed \/ (p.expires # None /\ t >= p.expires)

\* Poll.is_opened: the negation of is_expired.
is_opened(p, t) == ~is_expired(p, t)

\* The poll voted on is the first Poll object of the process, if there is one.
option_poll_is_expired == polls # <<>> /\ is_expired(polls[1], now)

\* What a call finds: the vote sets, the vote rows, and whether the poll is
\* closed.
Snapshot == [votes |-> votes, rows |-> rows, closed |-> option_poll_is_expired]
NoSnapshot == [votes |-> [o \in Options |-> {}], rows |-> {}, closed |-> FALSE]

IdleTask ==
    [op |-> "none", opt |-> 0, voter |-> 0, pc |-> "idle", cur |-> 0,
     rvf |-> FALSE, pre |-> NoSnapshot]

Started(op, o, v, f) ==
    [op |-> op, opt |-> o, voter |-> v, pc |-> f.pc, cur |-> f.cur,
     rvf |-> f.rvf, pre |-> Snapshot]

Goto(t, f) ==
    tasks' = [tasks EXCEPT ![t].pc = f.pc, ![t].cur = f.cur, ![t].rvf = f.rvf]

\* ------------------------------------------------------------------ actions
\* A call of Option.remove_vote(voter_id) on option o.
remove_vote(t, o, v) ==
    /\ tasks[t].pc = "idle"
    /\ tasks' = [tasks EXCEPT ![t] = Started("remove_vote", o, v, remove_vote_entry(o))]
    /\ UNCHANGED <<allow_multiple_votes, votes, rows, hist>>
    /\ UNCHANGED <<lifeVars, adapterVars>>

\* A call of Option.add_vote(voter_id) on option o.
add_vote(t, o, v) ==
    /\ tasks[t].pc = "idle"
    /\ tasks' = [tasks EXCEPT ![t] =
                    Started("add_vote", o, v, add_vote_entry(allow_multiple_votes))]
    /\ UNCHANGED <<allow_multiple_votes, votes, rows, hist>>
    /\ UNCHANGED <<lifeVars, adapterVars>>

\* A call of Option.toggle_vote(voter_id) on option o.
toggle_vote(t, o, v) ==
    /\ tasks[t].pc = "idle"
    /\ tasks' = [tasks EXCEPT ![t] =
                    Started("toggle_vote", o, v,
                            toggle_vote_entry(votes[o], o, v, allow_multiple_votes))]
    /\ UNCHANGED <<allow_multiple_votes, votes, rows, hist>>
    /\ UNCHANGED <<lifeVars, adapterVars>>

\* Paul.toggle_vote up to its first await: option.toggle_vote(voter_id) is
\* called without await, which builds the coroutine object and drops it, so
\* nothing of Option.toggle_vote runs; then __update_poll_message is awaited.
paul_toggle_vote_entry == Frame("update", 0, FALSE)

\* A call of Paul.toggle_vote(option, voter_id) on option o.
Paul_toggle_vote(t, o, v) ==
    /\ tasks[t].pc = "idle"
    /\ tasks' = [tasks EXCEPT ![t] = Started("Paul.toggle_vote", o, v, paul_toggle_vote_entry)]
    /\ UNCHANGED <<allow_multiple_votes, votes, rows, hist>>
    /\ UNCHANGED <<lifeVars, adapterVars>>

\* __update_poll_message returns to Paul.toggle_vote, which returns.
PaulToggleUpdated(t) ==
    /\ tasks[t].pc = "update"
    /\ Goto(t, Frame("done", 0, FALSE))
    /\ UNCHANGED <<allow_multiple_votes, votes, rows, hist>>
    /\ UNCHANGED <<lifeVars, adapterVars>>

\* Poll.new_option up to its first await: it fails on a full or closed poll,
\* and otherwise sends the insert of the option's row.
new_option_entry(n, closed) ==
    IF n >= MAX_OPTIONS \/ closed THEN "raised" ELSE "new_option"

\* add_poll_option up to its first await: FriendlyError on a full poll,
\* otherwise await poll.new_option(label, author_id).
add_poll_option_entry(n, closed) ==
    IF n = MAX_OPTIONS THEN "raised" ELSE new_option_entry(n, closed)

\* A call of Paul.add_poll_option(poll, label, author_id, inter).  cur keeps
\* the number of options the call found.
\*   "raised"        : ended by FriendlyError or by new_option's error
\*   "new_option"    : in Poll.new_option, the insert sent, not yet executed
\*   "append"        : the insert executed, new_option not yet resumed
\*   "option_update" : awaiting __update_poll_message
add_poll_option(t) ==
    /\ tasks[t].pc = "idle"
    /\ tasks' = [tasks EXCEPT ![t] =
            Started("add_poll_option", 0, 0,
                    Frame(add_poll_option_entry(options, option_poll_is_expired),
                          options, FALSE))]
    /\ UNCHANGED <<allow_multiple_votes, votes, rows, hist>>
    /\ UNCHANGED <<lifeVars, adapterVars>>

\* The database executes the insert of the option's row.
OptionInsertExecuted(t) ==
    /\ tasks[t].pc = "new_option"
    /\ option_rows' = option_rows + 1
    /\ tasks' = [tasks EXCEPT ![t].pc = "append"]
    /\ UNCHANGED <<allow_multiple_votes, votes, rows, hist, commands, options>>
    /\ UNCHANGED lifeVars

\* Poll.new_option resumes, appends the Option to the poll's options and
\* returns to add_poll_option, which awaits __update_poll_message.
OptionAppended(t) ==
    /\ tasks[t].pc = "append"
    /\ options' = options + 1
    /\ tasks' = [tasks EXCEPT ![t].pc = "option_update"]
    /\ UNCHANGED <<allow_multiple_votes, votes, rows, hist, commands, option_rows>>
    /\ UNCHANGED lifeVars

\* __update_poll_message returns to add_poll_option, which returns.
AddOptionUpdated(t) ==
    /\ tasks[t].pc = "option_update"
    /\ tasks' = [tasks EXCEPT ![t].pc = "done"]
    /\ UNCHANGED <<allow_multiple_votes, votes, rows, hist>>
    /\ UNCHANGED <<lifeVars, adapterVars>>

\* The database executes the pending delete of remove_vote.
DeleteExecuted(t) ==
    /\ tasks[t].pc = "delete"
    /\ rows' = sql_delete(rows, tasks[t].cur, tasks[t].voter)
    /\ tasks' = [tasks EXCEPT ![t].pc = "discard"]
    /\ UNCHANGED <<allow_multiple_votes, votes, hist>>
    /\ UNCHANGED <<lifeVars, adapterVars>>

\* remove_vote resumes after its await, discards the voter and returns: to
\* its caller's caller, or into the loop of remove_votes_from.
DiscardResumed(t) ==
    /\ tasks[t].pc = "discard"
    /\ votes' = [votes EXCEPT ![tasks[t].cur] = votes_discard(@, tasks[t].voter)]
    /\ Goto(t, IF tasks[t].rvf THEN remove_votes_from_next(tasks[t].cur)
               ELSE Frame("done", 0, FALSE))
    /\ UNCHANGED <<allow_multiple_votes, rows, hist>>
    /\ UNCHANGED <<lifeVars, adapterVars>>

\* The database executes the pending insert of add_vote.
InsertExecuted(t) ==
    /\ tasks[t].pc = "insert"
    /\ rows' = sql_insert_one(rows, tasks[t].opt, tasks[t].voter)
    /\ tasks' = [tasks EXCEPT ![t].pc = "add"]
    /\ UNCHANGED <<allow_multiple_votes, votes, hist>>
    /\ UNCHANGED <<lifeVars, adapterVars>>

\* add_vote resumes after its await, adds the voter and returns.
AddResumed(t) ==
    /\ tasks[t].pc = "add"
    /\ votes' = [votes EXCEPT ![tasks[t].opt] = votes_add(@, tasks[t].voter)]
    /\ Goto(t, Frame("done", 0, FALSE))
    /\ UNCHANGED <<allow_multiple_votes, rows, hist>>
    /\ UNCHANGED <<lifeVars, adapterVars>>

Call(t) == [op |-> tasks[t].op, opt |-> tasks[t].opt, voter |-> tasks[t].voter,
            pre |-> tasks[t].pre]

LastTwo(s) == IF Len(s) > 2 THEN Tail(s) ELSE s

\* hist is the uninterrupted run of toggle_vote calls by one voter that ends
\* with the last completed call (its last two calls, oldest first): a call of
\* another operation empties it, a toggle_vote by another voter restarts it.
Recorded(h, c) ==
    IF c.op # "toggle_vote" THEN <<>>
    ELSE IF h # <<>> /\ h[1].voter # c.voter THEN <<c>>
    ELSE LastTwo(Append(h, c))

\* The caller takes the result of a finished call.
Returned(t) ==
    /\ tasks[t].pc = "done"
    /\ hist' = Recorded(hist, Call(t))
    /\ tasks' = [tasks EXCEPT ![t] = IdleTask]
    /\ UNCHANGED <<allow_multiple_votes, votes, rows>>
    /\ UNCHANGED <<lifeVars, adapterVars>>

\* ======================================================= Part II: lifecycle
ExpiryChoices == {None} \cup (1..MaxExpires)
IntervalChoices == {None} \cup (1..MaxInterval)
CountChoices == {None} \cup (1..MaxRepeatCount)

\* ------------------------------------------------------------------- Poll
\* A Poll object, with the two coroutines that may close it: timer is the
\* position of its __poll_close_task, manual that of a close_poll_now a user
\* called on it.
\*   "none"     : no such coroutine
\*   "start"    : created by asyncio.create_task, not yet run
\*   "sleep"    : in asyncio.sleep until wake
\*   "update"   : in close_poll_now, poll.close() done, awaiting __update_poll_message
\*   "done"     : returned
\*   "crashed"  : ended by an exception
\* renders and counted record what the process did with the poll: how often
\* close_poll_now ran __update_poll_message for it (which re-renders the
\* message unless Discord forbids it), how often it was counted as closed.
\* denied holds the callers ("new_poll", "timer", "manual") whose
\* __update_poll_message for the poll met Forbidden.
PollObject(id, expires, closed) ==
    [id |-> id, expires |-> expires, closed |-> closed, timer |-> "none",
     wake |-> None, manual |-> "none", renders |-> 0, counted |-> 0,
     denied |-> {}]

\* Poll.close() on the Poll object at index i: marks it closed.
poll_close(ps, i) == [ps EXCEPT ![i].closed = TRUE]

\* Poll.close() persists the closed state of the poll's row.
persist_closed(st, id) == [st EXCEPT ![id].closed = TRUE]

\* ------------------------------------------------------------- coroutines
\* asyncio.sleep(delay) started at time t ends once the clock reaches t + delay.
sleep_until(t, delay) == t + delay

\* __poll_close_task: (poll.expires - datetime.now(pytz.utc)).total_seconds()
poll_close_task_delay(expires, t) == expires - t

poll_close_task_entry_never_sleeps(expires) == "done"

poll_close_task_entry_always_sleeps(expires) == "sleep"

\* __poll_close_task: if poll.expires is None: return; otherwise sleep.
poll_close_task_entry(expires) == IF expires = None THEN "done" ELSE "sleep"

repeat_config_error_only_without_count(repeat_time, repeat_count) ==
    repeat_time = None /\ repeat_count = None

\* repeat_poll: params.repeat_time is None and params.repeat_count is not None
repeat_config_error(repeat_time, repeat_count) ==
    repeat_time = None /\ repeat_count # None

repeat_continues_once_more(repeat_count_param, repeat_count) ==
    repeat_count_param = None \/ repeat_count <= repeat_count_param

\* repeat_poll: while params.repeat_count is None or repeat_count < params.repeat_count
repeat_continues(repeat_count_param, repeat_count) ==
    repeat_count_param = None \/ repeat_count < repeat_count_param

expires_advanced_twice(expires, repeat_time) == expires + repeat_time + repeat_time

\* repeat_poll: params.expires += params.repeat_time
expires_advanced(expires, repeat_time) == expires + repeat_time

\* A repeat_poll coroutine.  expires is params.expires, which the loop
\* advances; first_expires keeps the value the command was given; count is the
\* local repeat_count; made lists the Poll objects its new_poll calls created.
\*   "start"    : created by asyncio.create_task, not yet run
\*   "reject"   : awaiting message.edit of the configuration error
\*   "create"   : in new_poll, awaiting Poll.create_poll
\*   "failed"   : in new_poll's except branch, awaiting message.edit
\*   "update"   : in new_poll, awaiting __update_poll_message, then __set_presence
\*   "sleep"    : in asyncio.sleep until wake
\*   "crashed"  : ended by an exception
\*   "done"     : returned
RepeatLoop(expires, repeat_time, repeat_count, creatable) ==
    [expires |-> expires, first_expires |-> expires, repeat_time |-> repeat_time,
     repeat_count |-> repeat_count, creatable |-> creatable, count |-> 0,
     pc |-> "start", wake |-> None, made |-> <<>>]

\* The loop test of repeat_poll and, when it holds, the call of new_poll up to
\* its first await.  A loop without a count is followed for MaxForever rounds.
repeat_loop_test(l) ==
    IF repeat_continues(l.repeat_count, l.count)
    THEN IF l.repeat_count = None /\ l.count >= MaxForever
         THEN [l EXCEPT !.pc = "sleep", !.wake = None]
         ELSE [l EXCEPT !.pc = "create"]
    ELSE [l EXCEPT !.pc = "done"]

\* repeat_poll after new_poll has returned: break without an interval;
\* otherwise count, advance params.expires (a TypeError when it is None) and
\* sleep for the interval.
repeat_after_new_poll(l, t) ==
    IF l.repeat_time = None THEN [l EXCEPT !.pc = "done"]
    ELSE IF l.expires = None THEN [l EXCEPT !.pc = "crashed", !.count = @ + 1]
    ELSE [l EXCEPT !.pc = "sleep", !.count = @ + 1,
                   !.expires = expires_advanced(@, l.repeat_time),
                   !.wake = sleep_until(t, l.repeat_time)]

\* ------------------------------------------------------------------ clock
MaxOf(S) == IF S = {} THEN 0 ELSE CHOOSE x \in S : \A y \in S : y <= x

\* The times something is still due at: sleeping coroutines, expiries.
Deadlines ==
    {polls[i].wake : i \in {j \in DOMAIN polls : polls[j].timer = "sleep"}}
    \cup {loops[l].wake : l \in {m \in DOMAIN loops : loops[m].pc = "sleep"}}
    \cup {polls[i].expires : i \in DOMAIN polls}
    \cup {stored[i].expires : i \in DOMAIN stored}

\* The clock advances, as long as something is still due.
Tick ==
    /\ now < MaxOf(Deadlines)
    /\ now' = now + 1
    /\ UNCHANGED <<stored, polls, total_poll_count, closed_poll_count,
                   on_ready_triggered, readies, loops>>
    /\ UNCHANGED <<voteVars, adapterVars>>

\* ---------------------------------------------------------------- startup
\* The on_ready event: if not self.__on_ready_triggered, the handler runs up
\* to its first await, Poll.fetch_polls() in __load_polls.  (With the flag
\* set the handler returns at once.)
on_ready ==
    /\ ~on_ready_triggered
    /\ readies' = Append(readies, [pc |-> "fetch", fetched |-> <<>>])
    /\ UNCHANGED <<now, stored, polls, total_poll_count, closed_poll_count,
                   on_ready_triggered, loops>>
    /\ UNCHANGED <<voteVars, adapterVars>>

\* Poll.fetch_polls() reads every persisted poll.
FetchExecuted(r) ==
    /\ readies[r].pc = "fetch"
    /\ readies' = [readies EXCEPT ![r].pc = "loaded", ![r].fetched = stored]
    /\ UNCHANGED <<now, stored, polls, total_poll_count, closed_poll_count,
                   on_ready_triggered, loops>>
    /\ UNCHANGED <<voteVars, adapterVars>>

\* __load_polls resumes: for every fetched poll, count it, create its close
\* task if it is open, count it as closed otherwise; then on_ready awaits
\* __set_presence.
LoadResumed(r) ==
    /\ readies[r].pc = "loaded"
    /\ LET f == readies[r].fetched
           open(k) == is_opened(PollObject(k, f[k].expires, f[k].closed), now)
           loaded == [k \in 1..Len(f) |->
                        [PollObject(k, f[k].expires, f[k].closed) EXCEPT
                            !.timer = IF open(k) THEN "start" ELSE "none",
                            !.counted = IF open(k) THEN 0 ELSE 1]]
           opened == {k \in 1..Len(f) : open(k)}
       IN /\ polls' = polls \o loaded
          /\ total_poll_count' = total_poll_count + Len(f)
          /\ closed_poll_count' = closed_poll_count + (Len(f) - Cardinality(opened))
    /\ readies' = [readies EXCEPT ![r].pc = "presence"]
    /\ UNCHANGED <<now, stored, on_ready_triggered, loops>>
    /\ UNCHANGED <<voteVars, adapterVars>>

\* __set_presence returns to on_ready, which sets __on_ready_triggered.
ReadyPresenceDone(r) ==
    /\ readies[r].pc = "presence"
    /\ on_ready_triggered' = TRUE
    /\ readies' = [readies EXCEPT ![r].pc = "done"]
    /\ UNCHANGED <<now, stored, polls, total_poll_count, closed_poll_count,
                   loops>>
    /\ UNCHANGED <<voteVars, adapterVars>>

\* ------------------------------------------------------------ converters
\* The options argument of the poll command, as options.split(sep) sees it: a
\* sequence of segments, each with its length before (raw) and after (len)
\* option.strip().
Segment(raw, len) == [raw |-> raw, len |-> len]
Label == Segment(1, 1)
EmptySegment == Segment(0, 0)
BlankSegment == Segment(1, 0)
PaddedLabel == Segment(MaxLabelLength + 2, MaxLabelLength)
LongLabel == Segment(MaxLabelLength + 1, MaxLabelLength + 1)

Repeated(n, x) == [k \in 1..n |-> x]

\* "Yes|No"
DefaultArgument == <<Segment(3, 3), Segment(2, 2)>>

\* The arguments tried: up to MaxSegments labels, an empty argument, a
\* trailing separator, a blank label, a padded and an overlong label.
OptionArguments ==
    {Repeated(n, Label) : n \in (MaxSegments - 3)..MaxSegments}
    \cup {DefaultArgument, <<EmptySegment>>, <<PaddedLabel>>, <<LongLabel>>,
          Repeated(MaxParsedOptions, Label) \o <<EmptySegment>>,
          Repeated(MaxParsedOptions, Label) \o <<BlankSegment>>}

\* [option.strip() for option in options.split(sep) if option]: the lengths
\* of the stripped labels.
NonEmpty(seg) == seg.raw > 0
stripped_options(segments) ==
    LET kept == SelectSeq(segments, NonEmpty)
    IN [k \in 1..Len(kept) |-> kept[k].len]

too_many_options_above_next(result) == Len(result) > MaxParsedOptions + 1

\* if len(result) > 23: raise FriendlyError
too_many_options(result) == Len(result) > MaxParsedOptions

\* if len(option) > 253: raise FriendlyError, for some option
option_too_long(result) == \E k \in DOMAIN result : result[k] > MaxLabelLength

\* parse_options(sep)(inter, options): raises, or returns the labels, or
\* ["Yes", "No"] when there is none.
parse_options(segments) ==
    LET result == stripped_options(segments)
    IN IF too_many_options(result) \/ option_too_long(result)
       THEN [raised |-> TRUE, options |-> <<>>]
       ELSE IF result = <<>> THEN [raised |-> FALSE, options |-> <<3, 2>>]
       ELSE [raised |-> FALSE, options |-> result]

\* Poll.create_poll validates the option count before persisting; persists
\* tells whether the store then accepts the rows.
create_poll_accepts(option_labels, persists) ==
    persists /\ Len(option_labels) <= MAX_OPTIONS

\* ----------------------------------------------------- poll command, repeat
\* The poll slash command.  Its converters run first: a FriendlyError raised
\* by parse_options ends the command before its body runs.  Otherwise the
\* body ends with asyncio.create_task(self.repeat_poll(params, ...)).
\* persists tells whether the store accepts the poll that Poll.create_poll
\* writes.  Commands are followed from the end of the startup on.
poll(options_argument, expires, repeat_time, repeat_count, persists) ==
    /\ Len(commands) < MaxCommands
    /\ on_ready_triggered
    /\ LET parsed == parse_options(options_argument)
       IN /\ commands' = Append(commands,
                 [labels |-> Len(stripped_options(options_argument)),
                  raised |-> parsed.raised])
          /\ loops' = IF parsed.raised THEN loops
                      ELSE Append(loops, RepeatLoop(expires, repeat_time, repeat_count,
                                      create_poll_accepts(parsed.options, persists)))
    /\ UNCHANGED <<now, stored, polls, total_poll_count, closed_poll_count,
                   on_ready_triggered, readies>>
    /\ UNCHANGED <<voteVars, options, option_rows>>

\* repeat_poll runs up to its first await: the edit of the error message, or
\* Poll.create_poll in the first new_poll.
RepeatStarted(l) ==
    /\ loops[l].pc = "start"
    /\ loops' = [loops EXCEPT ![l] =
                    IF repeat_config_error(@.repeat_time, @.repeat_count)
                    THEN [@ EXCEPT !.pc = "reject"]
                    ELSE repeat_loop_test(@)]
    /\ UNCHANGED <<now, stored, polls, total_poll_count, closed_poll_count,
                   on_ready_triggered, readies>>
    /\ UNCHANGED <<voteVars, adapterVars>>

\* The error message is edited in; repeat_poll returns.
RejectEdited(l) ==
    /\ loops[l].pc = "reject"
    /\ loops' = [loops EXCEPT ![l].pc = "done"]
    /\ UNCHANGED <<now, stored, polls, total_poll_count, closed_poll_count,
                   on_ready_triggered, readies>>
    /\ UNCHANGED <<voteVars, adapterVars>>

\* Poll.create_poll returns the new poll, persisted, and new_poll counts it
\* and awaits __update_poll_message.
PollCreated(l) ==
    /\ loops[l].pc = "create"
    /\ loops[l].creatable
    /\ stored' = Append(stored, [expires |-> loops[l].expires, closed |-> FALSE])
    /\ polls' = Append(polls, PollObject(Len(stored) + 1, loops[l].expires, FALSE))
    /\ total_poll_count' = total_poll_count + 1
    /\ loops' = [loops EXCEPT ![l].pc = "update", ![l].made = Append(@, Len(polls) + 1)]
    /\ UNCHANGED <<now, closed_poll_count, on_ready_triggered, readies>>
    /\ UNCHANGED <<voteVars, adapterVars>>

\* Poll.create_poll raises RuntimeError; new_poll awaits the edit of the
\* failure message.
PollCreationFailed(l) ==
    /\ loops[l].pc = "create"
    /\ ~loops[l].creatable
    /\ loops' = [loops EXCEPT ![l].pc = "failed"]
    /\ UNCHANGED <<now, stored, polls, total_poll_count, closed_poll_count,
                   on_ready_triggered, readies>>
    /\ UNCHANGED <<voteVars, adapterVars>>

\* The failure message is edited in; new_poll returns to repeat_poll.
FailureEdited(l) ==
    /\ loops[l].pc = "failed"
    /\ loops' = [loops EXCEPT ![l] = repeat_after_new_poll(@, now)]
    /\ UNCHANGED <<now, stored, polls, total_poll_count, closed_poll_count,
                   on_ready_triggered, readies>>
    /\ UNCHANGED <<voteVars, adapterVars>>

\* __update_poll_message and then __set_presence return to new_poll, which
\* creates the close task of the new poll and returns to repeat_poll.
NewPollUpdated(l) ==
    /\ loops[l].pc = "update"
    /\ LET p == loops[l].made[Len(loops[l].made)]
       IN polls' = [polls EXCEPT ![p].timer = "start"]
    /\ loops' = [loops EXCEPT ![l] = repeat_after_new_poll(@, now)]
    /\ UNCHANGED <<now, stored, total_poll_count, closed_poll_count,
                   on_ready_triggered, readies>>
    /\ UNCHANGED <<voteVars, adapterVars>>

\* asyncio.sleep(params.repeat_time.total_seconds()) ends; the loop test runs.
RepeatSleepDone(l) ==
    /\ loops[l].pc = "sleep"
    /\ loops[l].wake # None
    /\ now >= loops[l].wake
    /\ loops' = [loops EXCEPT ![l] = repeat_loop_test(@)]
    /\ UNCHANGED <<now, stored, polls, total_poll_count, closed_poll_count,
                   on_ready_triggered, readies>>
    /\ UNCHANGED <<voteVars, adapterVars>>

\* ------------------------------------------------------------------ closing
\* close_poll_now up to its first await: poll.close(), then it awaits
\* __update_poll_message.  ps is polls with the caller's position set.
close_poll_now_entry(ps, i) ==
    /\ polls' = poll_close(ps, i)
    /\ stored' = persist_closed(stored, polls[i].id)

\* __poll_close_task runs for the first time: it returns for a poll without
\* expiry and sleeps until the expiry otherwise.
CloseTaskStarted(i) ==
    /\ polls[i].timer = "start"
    /\ LET e == polls[i].expires
       IN polls' = [polls EXCEPT
                ![i].timer = poll_close_task_entry(e),
                ![i].wake = IF poll_close_task_entry(e) = "sleep"
                            THEN sleep_until(now, poll_close_task_delay(e, now))
                            ELSE None]
    /\ UNCHANGED <<now, stored, total_poll_count, closed_poll_count,
                   on_ready_triggered, readies, loops>>
    /\ UNCHANGED <<voteVars, adapterVars>>

\* The sleep of __poll_close_task ends and it calls close_poll_now.
CloseTaskWoke(i) ==
    /\ polls[i].timer = "sleep"
    /\ now >= polls[i].wake
    /\ close_poll_now_entry([polls EXCEPT ![i].timer = "update"], i)
    /\ UNCHANGED <<now, total_poll_count, closed_poll_count, on_ready_triggered,
                   readies, loops>>
    /\ UNCHANGED <<voteVars, adapterVars>>

\* A user closes the open poll at index i: close_poll_now(poll, message).
close_poll_now(i) ==
    /\ is_opened(polls[i], now)
    /\ polls[i].manual = "none"
    /\ close_poll_now_entry([polls EXCEPT ![i].manual = "update"], i)
    /\ UNCHANGED <<now, total_poll_count, closed_poll_count, on_ready_triggered,
                   readies, loops>>
    /\ UNCHANGED <<voteVars, adapterVars>>

\* __update_poll_message returns to the close_poll_now of the timer, having
\* re-rendered the message or swallowed Forbidden; close_poll_now increments
\* __closed_poll_count, awaits __set_presence and returns, and with it
\* __poll_close_task.
TimerCloseUpdated(i) ==
    /\ polls[i].timer = "update"
    /\ polls' = [polls EXCEPT ![i].timer = "done", ![i].renders = @ + 1,
                              ![i].counted = @ + 1]
    /\ closed_poll_count' = closed_poll_count + 1
    /\ UNCHANGED <<now, stored, total_poll_count, on_ready_triggered, readies, loops>>
    /\ UNCHANGED <<voteVars, adapterVars>>

\* The same steps of the close_poll_now a user called.
ManualCloseUpdated(i) ==
    /\ polls[i].manual = "update"
    /\ polls' = [polls EXCEPT ![i].manual = "done", ![i].renders = @ + 1,
                              ![i].counted = @ + 1]
    /\ closed_poll_count' = closed_poll_count + 1
    /\ UNCHANGED <<now, stored, total_poll_count, on_ready_triggered, readies, loops>>
    /\ UNCHANGED <<voteVars, adapterVars>>

\* ------------------------------------------------ failures of the transport
\* What fetching or editing the poll message may raise: Forbidden (the bot
\* lacks the permission) or another error of the API (the message is gone).
UpdateErrors == {"Forbidden", "NotFound"}

update_poll_message_swallows_nothing(error) == FALSE

\* __update_poll_message: except Forbidden: pass.  Anything else propagates.
update_poll_message_swallows(error) == error = "Forbidden"

\* The callers of __update_poll_message for a poll that met Forbidden.
denied_by(d, caller, error) == IF error = "Forbidden" THEN d \cup {caller} ELSE d

\* __update_poll_message fails in the close_poll_now of the timer.  Swallowed,
\* close_poll_now goes on as in TimerCloseUpdated; otherwise the error ends
\* close_poll_now and __poll_close_task.
TimerCloseUpdateFailed(i, error) ==
    /\ polls[i].timer = "update"
    /\ IF update_poll_message_swallows(error)
       THEN /\ polls' = [polls EXCEPT ![i].timer = "done", ![i].renders = @ + 1,
                                      ![i].counted = @ + 1,
                                      ![i].denied = denied_by(@, "timer", error)]
            /\ closed_poll_count' = closed_poll_count + 1
       ELSE /\ polls' = [polls EXCEPT ![i].timer = "crashed", ![i].renders = @ + 1,
                                      ![i].denied = denied_by(@, "timer", error)]
            /\ UNCHANGED closed_poll_count
    /\ UNCHANGED <<now, stored, total_poll_count, on_ready_triggered, readies, loops>>
    /\ UNCHANGED <<voteVars, adapterVars>>

\* The same in the close_poll_now a user called.
ManualCloseUpdateFailed(i, error) ==
    /\ polls[i].manual = "update"
    /\ IF update_poll_message_swallows(error)
       THEN /\ polls' = [polls EXCEPT ![i].manual = "done", ![i].renders = @ + 1,
                                      ![i].counted = @ + 1,
                                      ![i].denied = denied_by(@, "manual", error)]
            /\ closed_poll_count' = closed_poll_count + 1
       ELSE /\ polls' = [polls EXCEPT ![i].manual = "crashed", ![i].renders = @ + 1,
                                      ![i].denied = denied_by(@, "manual", error)]
            /\ UNCHANGED closed_poll_count
    /\ UNCHANGED <<now, stored, total_poll_count, on_ready_triggered, readies, loops>>
    /\ UNCHANGED <<voteVars, adapterVars>>

\* __update_poll_message fails in new_poll.  Swallowed, new_poll goes on as in
\* NewPollUpdated; otherwise the error (no RuntimeError) leaves new_poll
\* before the close task is created, and ends repeat_poll.
NewPollUpdateFailed(l, error) ==
    /\ loops[l].pc = "update"
    /\ LET p == loops[l].made[Len(loops[l].made)]
       IN IF update_poll_message_swallows(error)
          THEN /\ polls' = [polls EXCEPT ![p].timer = "start",
                                         ![p].denied = denied_by(@, "new_poll", error)]
               /\ loops' = [loops EXCEPT ![l] = repeat_after_new_poll(@, now)]
          ELSE /\ polls' = [polls EXCEPT ![p].denied = denied_by(@, "new_poll", error)]
               /\ loops' = [loops EXCEPT ![l].pc = "crashed"]
    /\ UNCHANGED <<now, stored, total_poll_count, closed_poll_count,
                   on_ready_triggered, readies>>
    /\ UNCHANGED <<voteVars, adapterVars>>

\* ========================================================== specifications
VoteInit ==
    /\ votes = [o \in Options |-> {}]
    /\ rows = {}
    /\ tasks = [t \in Tasks |-> IdleTask]
    /\ hist = <<>>

\* The process after construction: Paul.__init__ zeroes the counters.
PaulInit ==
    /\ now = 0
    /\ polls = <<>>
    /\ total_poll_count = 0
    /\ closed_poll_count = 0
    /\ on_ready_triggered = FALSE
    /\ readies = <<>>
    /\ loops = <<>>
    /\ commands = <<>>
    /\ options = Len(parse_options(DefaultArgument).options)
    /\ option_rows = options

StoredRows ==
    UNION {[1..n -> [expires : ExpiryChoices, closed : BOOLEAN]] : n \in 0..MaxStored}

NoneInFlight == \A t \in Tasks : tasks[t].pc = "idle"

\* Votes on one poll, the calls made one at a time: the next call starts when
\* the previous one has returned.
InitSeq ==
    /\ allow_multiple_votes \in BOOLEAN
    /\ VoteInit
    /\ PaulInit
    /\ stored = <<>>

NextSeq ==
    \/ \E o \in Options, v \in Voters : NoneInFlight /\ remove_vote(1, o, v)
    \/ \E o \in Options, v \in Voters : NoneInFlight /\ add_vote(1, o, v)
    \/ \E o \in Options, v \in Voters : NoneInFlight /\ toggle_vote(1, o, v)
    \/ DeleteExecuted(1)
    \/ DiscardResumed(1)
    \/ InsertExecuted(1)
    \/ AddResumed(1)
    \/ Returned(1)

SpecSeq == InitSeq /\ [][NextSeq]_vars

\* Votes on one poll, concurrent calls: every task makes one call; the calls
\* interleave at their awaits.
NextConc ==
    \/ \E t \in Tasks, o \in Options, v \in Voters : remove_vote(t, o, v)
    \/ \E t \in Tasks, o \in Options, v \in Voters : add_vote(t, o, v)
    \/ \E t \in Tasks, o \in Options, v \in Voters : toggle_vote(t, o, v)
    \/ \E t \in Tasks : DeleteExecuted(t)
    \/ \E t \in Tasks : DiscardResumed(t)
    \/ \E t \in Tasks : InsertExecuted(t)
    \/ \E t \in Tasks : AddResumed(t)

SpecConc == InitSeq /\ [][NextConc]_vars

\* The lifecycle: startup, one poll command, timers and manual closes.
InitLife ==
    /\ allow_multiple_votes = FALSE
    /\ VoteInit
    /\ PaulInit
    /\ stored \in StoredRows

\* The steps the event loop takes on its own: every coroutine that can
\* resume does.
Scheduled ==
    \/ \E r \in DOMAIN readies : FetchExecuted(r)
    \/ \E r \in DOMAIN readies : LoadResumed(r)
    \/ \E r \in DOMAIN readies : ReadyPresenceDone(r)
    \/ \E l \in DOMAIN loops : RepeatStarted(l)
    \/ \E l \in DOMAIN loops : RejectEdited(l)
    \/ \E l \in DOMAIN loops : PollCreated(l)
    \/ \E l \in DOMAIN loops : PollCreationFailed(l)
    \/ \E l \in DOMAIN loops : FailureEdited(l)
    \/ \E l \in DOMAIN loops : NewPollUpdated(l)
    \/ \E l \in DOMAIN loops : RepeatSleepDone(l)
    \/ \E i \in DOMAIN polls : CloseTaskStarted(i)
    \/ \E i \in DOMAIN polls : CloseTaskWoke(i)
    \/ \E i \in DOMAIN polls : TimerCloseUpdated(i)
    \/ \E i \in DOMAIN polls : ManualCloseUpdated(i)

NextLife ==
    \/ Tick
    \/ Len(readies) < MaxReady /\ on_ready
    \/ \E e \in ExpiryChoices, rt \in IntervalChoices, rc \in CountChoices,
          ok \in BOOLEAN : poll(DefaultArgument, e, rt, rc, ok)
    \/ \E i \in DOMAIN polls : close_poll_now(i)
    \/ Scheduled

SpecLife == InitLife /\ [][NextLife]_vars

\* The lifecycle with the event loop running every coroutine that can resume
\* and the clock advancing while something is due.
SpecLifeFair == SpecLife /\ WF_vars(Tick) /\ WF_vars(Scheduled)

\* Votes on a poll of the process: the poll was loaded open at startup, with
\* the votes cast so far.  One call is made, of the option's toggle_vote or
\* of Paul.toggle_vote, at any time of the poll's life: its close task and a
\* manual close run alongside.
VotesCast ==
    {vs \in [Options -> SUBSET Voters] :
        allow_multiple_votes \/
            \A v \in Voters : Cardinality({o \in Options : v \in vs[o]}) <= 1}

InitVoting ==
    /\ allow_multiple_votes \in BOOLEAN
    /\ votes \in VotesCast
    /\ rows = {<<o, v>> \in Options \X Voters : v \in votes[o]}
    /\ tasks = [t \in Tasks |-> IdleTask]
    /\ hist = <<>>
    /\ now = 0
    /\ stored \in {st \in StoredRows : Len(st) = 1 /\ ~st[1].closed}
    /\ polls = <<[PollObject(1, stored[1].expires, FALSE) EXCEPT !.timer = "start"]>>
    /\ total_poll_count = 1
    /\ closed_poll_count = 0
    /\ on_ready_triggered = TRUE
    /\ readies = <<[pc |-> "done", fetched |-> stored]>>
    /\ loops = <<>>
    /\ commands = <<>>
    /\ options = NumOptions
    /\ option_rows = options

NextVoting ==
    \/ \E o \in Options, v \in Voters : toggle_vote(1, o, v)
    \/ \E o \in Options, v \in Voters : Paul_toggle_vote(1, o, v)
    \/ DeleteExecuted(1)
    \/ DiscardResumed(1)
    \/ InsertExecuted(1)
    \/ AddResumed(1)
    \/ PaulToggleUpdated(1)
    \/ Tick
    \/ CloseTaskStarted(1)
    \/ CloseTaskWoke(1)
    \/ TimerCloseUpdated(1)
    \/ close_poll_now(1)
    \/ ManualCloseUpdated(1)

SpecVoting == InitVoting /\ [][NextVoting]_vars

\* The poll command with its options argument, on an empty store.
InitCommand ==
    /\ allow_multiple_votes = FALSE
    /\ VoteInit
    /\ PaulInit
    /\ stored = <<>>

NextCommand ==
    \/ Tick
    \/ Len(readies) < MaxReady /\ on_ready
    \/ \E arg \in OptionArguments, e \in ExpiryChoices, rt \in IntervalChoices,
          rc \in CountChoices, ok \in BOOLEAN : poll(arg, e, rt, rc, ok)
    \/ \E i \in DOMAIN polls : close_poll_now(i)
    \/ Scheduled

SpecCommand == InitCommand /\ [][NextCommand]_vars

\* Options added to a poll of the process: the poll was loaded open at
\* startup, with MAX_OPTIONS options or a few less.  Every task makes one
\* add_poll_option request; the requests interleave at their awaits, and the
\* poll's close task and a manual close run alongside.
InitOptions ==
    /\ allow_multiple_votes = FALSE
    /\ VoteInit
    /\ now = 0
    /\ stored \in {st \in StoredRows : Len(st) = 1 /\ ~st[1].closed}
    /\ polls = <<[PollObject(1, stored[1].expires, FALSE) EXCEPT !.timer = "start"]>>
    /\ total_poll_count = 1
    /\ closed_poll_count = 0
    /\ on_ready_triggered = TRUE
    /\ readies = <<[pc |-> "done", fetched |-> stored]>>
    /\ loops = <<>>
    /\ commands = <<>>
    /\ options \in (MAX_OPTIONS - NumTasks)..MAX_OPTIONS
    /\ option_rows = options

NextOptions ==
    \/ \E t \in Tasks : add_poll_option(t)
    \/ \E t \in Tasks : OptionInsertExecuted(t)
    \/ \E t \in Tasks : OptionAppended(t)
    \/ \E t \in Tasks : AddOptionUpdated(t)
    \/ Tick
    \/ CloseTaskStarted(1)
    \/ CloseTaskWoke(1)
    \/ TimerCloseUpdated(1)
    \/ close_poll_now(1)
    \/ ManualCloseUpdated(1)

SpecOptions == InitOptions /\ [][NextOptions]_vars

\* The lifecycle with a transport that may fail when the poll message is
\* fetched or edited.
NextUnreliable ==
    \/ NextLife
    \/ \E i \in DOMAIN polls, e \in UpdateErrors : TimerCloseUpdateFailed(i, e)
    \/ \E i \in DOMAIN polls, e \in UpdateErrors : ManualCloseUpdateFailed(i, e)
    \/ \E l \in DOMAIN loops, e \in UpdateErrors : NewPollUpdateFailed(l, e)

\* The process starts on an empty store.
InitUnreliable ==
    /\ allow_multiple_votes = FALSE
    /\ VoteInit
    /\ PaulInit
    /\ stored = <<>>

SpecUnreliable == InitUnreliable /\ [][NextUnreliable]_vars

\* The startup: Discord sends on_ready on connecting and again on every
\* reconnect; the polls loaded go through their close tasks and manual closes.
NextStartup ==
    \/ Tick
    \/ Len(readies) < 1 + MaxReconnects /\ on_ready
    \/ \E r \in DOMAIN readies : FetchExecuted(r)
    \/ \E r \in DOMAIN readies : LoadResumed(r)
    \/ \E r \in DOMAIN readies : ReadyPresenceDone(r)
    \/ \E i \in DOMAIN polls : CloseTaskStarted(i)
    \/ \E i \in DOMAIN polls : CloseTaskWoke(i)
    \/ \E i \in DOMAIN polls : TimerCloseUpdated(i)
    \/ \E i \in DOMAIN polls : close_poll_now(i)
    \/ \E i \in DOMAIN polls : ManualCloseUpdated(i)

SpecStartup == InitLife /\ [][NextStartup]_vars


\* ===================================================================== claims
RowsOf(rs, o) == {v \in Voters : <<o, v>> \in rs}
VotedOn(vs, v) == {o \in Options : v \in vs[o]}
Finished(t, op) == tasks[t].pc = "done" /\ tasks[t].op = op

\* C1: on a single-vote poll, with the calls made one at a time, every voter
\* is in the in-memory vote set of at most one option, in every state, the
\* states inside a running add_vote included.
C1_AtMostOneVote ==
    ~allow_multiple_votes => \A v \in Voters : Cardinality(VotedOn(votes, v)) <= 1

\* An add_vote on a single-vote poll has removed the voter's vote on a sibling
\* and is about to add the voter to its own option.
C1_Witness ==
    /\ ~allow_multiple_votes
    /\ tasks[1].pc = "add"
    /\ \E o \in Options \ {tasks[1].opt} : tasks[1].voter \in tasks[1].pre.votes[o]
    /\ VotedOn(votes, tasks[1].voter) = {}

\* C2: two concurrent toggle_vote calls of a voter without a vote, on two
\* options of a single-vote poll, end with the voter in the vote set of
\* exactly one of the two options.
C2_ConcurrentTogglesOneVote ==
    \A t \in Tasks, u \in Tasks :
        ( /\ t # u
          /\ ~allow_multiple_votes
          /\ Finished(t, "toggle_vote") /\ Finished(u, "toggle_vote")
          /\ tasks[t].voter = tasks[u].voter
          /\ tasks[t].opt # tasks[u].opt
          /\ VotedOn(tasks[t].pre.votes, tasks[t].voter) = {}
          /\ VotedOn(tasks[u].pre.votes, tasks[u].voter) = {}
          /\ \A w \in Tasks \ {t, u} : tasks[w].pc = "idle" )
        => Cardinality(VotedOn(votes, tasks[t].voter) \cap {tasks[t].opt, tasks[u].opt}) = 1

\* C3: when no vote call is in flight, a voter is in an option's in-memory
\* vote set exactly when the store holds the vote row, whatever the
\* interleaving of the concurrent calls before.
C3_CacheMatchesStore ==
    (\A t \in Tasks : tasks[t].pc \in {"idle", "done"})
        => \A o \in Options : votes[o] = RowsOf(rows, o)

\* C4: two toggle_vote calls in succession on the same option by the same
\* voter leave the option's vote set, in memory and in the store, as it was
\* before the first of them.
C4_ToggleTwice ==
    ( /\ Finished(1, "toggle_vote")
      /\ hist # <<>>
      /\ hist[Len(hist)].opt = tasks[1].opt
      /\ hist[Len(hist)].voter = tasks[1].voter )
    => /\ votes[tasks[1].opt] = hist[Len(hist)].pre.votes[tasks[1].opt]
       /\ RowsOf(rows, tasks[1].opt) = RowsOf(hist[Len(hist)].pre.rows, tasks[1].opt)

\* The second of two such toggles has returned, on a single-vote poll where
\* the voter had a vote on a sibling option before the first toggle.
C4_Witness ==
    /\ Finished(1, "toggle_vote")
    /\ hist # <<>>
    /\ hist[Len(hist)].opt = tasks[1].opt
    /\ hist[Len(hist)].voter = tasks[1].voter
    /\ ~allow_multiple_votes
    /\ VotedOn(hist[Len(hist)].pre.votes, tasks[1].voter) \ {tasks[1].opt} # {}

\* The case of C5: on a single-vote poll, a voter without a vote has toggled
\* option A, then option B, then option B again, nothing in between; the
\* third call has returned.
C5_Scenario ==
    /\ ~allow_multiple_votes
    /\ Finished(1, "toggle_vote")
    /\ Len(hist) = 2
    /\ hist[1].voter = tasks[1].voter /\ hist[2].voter = tasks[1].voter
    /\ hist[1].opt # hist[2].opt
    /\ hist[2].opt = tasks[1].opt
    /\ VotedOn(hist[1].pre.votes, tasks[1].voter) = {}

\* C5 as stated: after toggle A, toggle B, toggle B the voter has a vote on A
\* only.
C5_VoteOnAOnly ==
    C5_Scenario => VotedOn(votes, tasks[1].voter) = {hist[1].opt}

\* C5 amended: after toggle A, toggle B, toggle B the voter has no vote on any
\* option of the poll, in memory or in the store.
C5_NoVoteLeft ==
    C5_Scenario =>
        /\ VotedOn(votes, tasks[1].voter) = {}
        /\ \A o \in Options : tasks[1].voter \notin RowsOf(rows, o)

C5_Witness == C5_Scenario

\* C6: a remove_vote for a voter who has no vote on the option returns, and
\* leaves every in-memory vote set and the store's vote rows unchanged.
C6_RemoveAbsentVote ==
    ( /\ Finished(1, "remove_vote")
      /\ tasks[1].voter \notin tasks[1].pre.votes[tasks[1].opt] )
    => /\ votes = tasks[1].pre.votes
       /\ rows = tasks[1].pre.rows

\* Such a remove_vote has returned while the voter holds a vote on a sibling
\* option and another voter holds one on the option itself.
C6_Witness ==
    /\ Finished(1, "remove_vote")
    /\ tasks[1].voter \notin tasks[1].pre.votes[tasks[1].opt]
    /\ VotedOn(votes, tasks[1].voter) # {}
    /\ votes[tasks[1].opt] # {}

\* ------------------------------------------------------- lifecycle claims
PollIndexes == 1..(MaxStored * MaxReady + MaxCommands * (MaxRepeatCount + MaxForever))
LoopIndexes == 1..MaxCommands

Range(q) == {q[k] : k \in DOMAIN q}
CreatedByNewPoll(i) == \E l \in DOMAIN loops : i \in Range(loops[l].made)

\* C7: a poll closed early through close_poll_now is re-rendered as closed
\* once and counted as closed once: its close task, waking at the expiry,
\* closes nothing a second time.
C7_NoSecondClose ==
    \A i \in DOMAIN polls :
        polls[i].manual # "none" => polls[i].renders <= 1 /\ polls[i].counted <= 1

\* A poll that new_poll created, or that was loaded open at startup, has an
\* expiry, and the clock has reached it.
C8_Due(i) ==
    /\ i \in DOMAIN polls
    /\ polls[i].expires # None
    /\ CreatedByNewPoll(i) \/ polls[i].timer # "none"
    /\ now >= polls[i].expires

C8_Closed(i) ==
    /\ i \in DOMAIN polls
    /\ polls[i].closed
    /\ polls[i].renders >= 1

\* C8: every poll with an expiry that new_poll created or that was loaded
\* open at startup is closed, and its message re-rendered by close_poll_now,
\* once the clock has reached the expiry, whatever the users do.
C8_ClosedAtExpiry == \A i \in PollIndexes : C8_Due(i) ~> C8_Closed(i)

\* A poll created by new_poll was closed by its close task alone.
C8_Witness ==
    \E i \in DOMAIN polls :
        /\ CreatedByNewPoll(i)
        /\ polls[i].manual = "none"
        /\ polls[i].timer = "done"
        /\ C8_Closed(i)

\* A repeat_poll with an interval, a count, an expiry and params that
\* Poll.create_poll accepts.
C9_Counted(l) ==
    /\ l \in DOMAIN loops
    /\ loops[l].repeat_time # None
    /\ loops[l].repeat_count # None
    /\ loops[l].first_expires # None
    /\ loops[l].creatable

C9_Returned(l) == l \in DOMAIN loops /\ loops[l].pc = "done"

\* C9: such a loop never creates more polls than its count N, has created
\* exactly N when it returns, and it returns.
C9_ExactlyNPolls ==
    \A l \in LoopIndexes :
        /\ [](C9_Counted(l) =>
                /\ Len(loops[l].made) <= loops[l].repeat_count
                /\ loops[l].pc = "done" => Len(loops[l].made) = loops[l].repeat_count)
        /\ C9_Counted(l) ~> C9_Returned(l)

\* A loop with a count of at least two has returned.
C9_Witness ==
    \E l \in DOMAIN loops :
        /\ C9_Counted(l)
        /\ loops[l].repeat_count >= 2
        /\ loops[l].pc = "done"
        /\ Len(loops[l].made) = loops[l].repeat_count

C11_SuccessorAfterClosure ==
    \A l \in DOMAIN loops :
        (loops[l].pc = "update" /\ Len(loops[l].made) >= 2) =>
            is_expired(polls[loops[l].made[Len(loops[l].made) - 1]], now)

\* A repeat_poll called with a repeat count and no repeat interval.
C12_CountWithoutInterval(l) ==
    loops[l].repeat_time = None /\ loops[l].repeat_count # None

\* C12: such a repeat_poll takes two steps only, the edit of the error into
\* the requester's message and its return; it creates no poll, and its steps
\* change neither the polls, nor the store, nor the counters, nor any close
\* task.
C12_RejectedWithoutEffect ==
    [][\A l \in DOMAIN loops :
          (C12_CountWithoutInterval(l) /\ loops'[l] # loops[l]) =>
              /\ \/ loops[l].pc = "start" /\ loops'[l].pc = "reject"
                 \/ loops[l].pc = "reject" /\ loops'[l].pc = "done"
              /\ loops'[l].made = <<>>
              /\ UNCHANGED <<polls, stored, total_poll_count, closed_poll_count>>]_vars

\* Such a repeat_poll has returned, in a process that holds a poll.
C12_Witness ==
    \E l \in DOMAIN loops :
        /\ C12_CountWithoutInterval(l)
        /\ loops[l].pc = "done"
        /\ loops[l].made = <<>>
        /\ polls # <<>>

\* C18: a poll without expiry is never closed by the scheduler: its close
\* task neither sleeps nor calls close_poll_now, and the poll is open unless
\* close_poll_now was called on it by a user (or it was loaded closed, in
\* which case it never had a close task).
C18_NoExpiryNoTimerClose ==
    \A i \in DOMAIN polls :
        polls[i].expires = None =>
            /\ polls[i].timer \in {"none", "start", "done"}
            /\ polls[i].renders = (IF polls[i].manual = "done" THEN 1 ELSE 0)
            /\ (polls[i].closed /\ polls[i].manual = "none") =>
                    (polls[i].timer = "none" /\ ~CreatedByNewPoll(i))
            /\ (~polls[i].closed) => is_opened(polls[i], now)

\* The close task of a poll without expiry has ended, the clock has moved on
\* and the poll is open.
C18_Witness ==
    \E i \in DOMAIN polls :
        /\ polls[i].expires = None
        /\ polls[i].timer = "done"
        /\ now > 0
        /\ is_opened(polls[i], now)

\* C20: the closed-poll counter never exceeds the number of distinct polls of
\* the process that are closed (by close() or by their expiry), nor the
\* total-poll counter: the active count of
\* the presence text is never negative.
C20_ClosedCountExact ==
    /\ closed_poll_count <= Cardinality({polls[i].id : i \in {j \in DOMAIN polls : is_expired(polls[j], now)}})
    /\ closed_poll_count <= total_poll_count

\* C15: the process holds at most one Poll object per poll id, and at most
\* one close task not yet ended per poll id, however often on_ready fires.
C15_OneInstancePerPoll ==
    /\ \A i \in DOMAIN polls, j \in DOMAIN polls :
            polls[i].id = polls[j].id => i = j
    /\ \A i \in DOMAIN polls, j \in DOMAIN polls :
            ( /\ polls[i].id = polls[j].id
              /\ polls[i].timer \in {"start", "sleep", "update"}
              /\ polls[j].timer \in {"start", "sleep", "update"} ) => i = j

\* C19: a Forbidden met by __update_poll_message is swallowed.  Met in
\* close_poll_now, the call still ends with the poll marked closed (in memory
\* and in the store) and counted as closed; met in new_poll, the close task of
\* the new poll is still created.
C19_ForbiddenSwallowed ==
    \A i \in DOMAIN polls :
        /\ "timer" \in polls[i].denied =>
              /\ polls[i].timer = "done"
              /\ polls[i].closed /\ stored[polls[i].id].closed
              /\ polls[i].counted >= 1 /\ closed_poll_count >= 1
        /\ "manual" \in polls[i].denied =>
              /\ polls[i].manual = "done"
              /\ polls[i].closed /\ stored[polls[i].id].closed
              /\ polls[i].counted >= 1 /\ closed_poll_count >= 1
        /\ "new_poll" \in polls[i].denied => polls[i].timer # "none"

\* A poll whose creation and whose timer-driven close both met Forbidden.
C19_Witness ==
    \E i \in DOMAIN polls :
        /\ {"new_poll", "timer"} \subseteq polls[i].denied
        /\ polls[i].timer = "done"
        /\ polls[i].closed
        /\ polls[i].counted = 1

\* C13: a toggle_vote called on an option of a poll that is closed (its
\* expiry has passed or close() was called) has changed no vote set of the
\* poll when it returns, in memory or in the store.
C13_NoVoteAfterClose ==
    \A t \in Tasks :
        (Finished(t, "toggle_vote") /\ tasks[t].pre.closed
            /\ \A u \in Tasks \ {t} : tasks[u].pc = "idle") =>
                (votes = tasks[t].pre.votes /\ rows = tasks[t].pre.rows)

\* C14: when Paul.toggle_vote(option, voter) returns, the voter's membership
\* in the option's vote set is the opposite of what it was at the call, in
\* memory and in the store.
C14_AdapterToggleApplied ==
    \A t \in Tasks :
        (Finished(t, "Paul.toggle_vote") /\ \A u \in Tasks \ {t} : tasks[u].pc = "idle") =>
            LET o == tasks[t].opt
                v == tasks[t].voter
            IN /\ (v \in votes[o]) # (v \in tasks[t].pre.votes[o])
               /\ (<<o, v>> \in rows) # (<<o, v>> \in tasks[t].pre.rows)

\* C16: a poll command given more labels than the maximum is refused by
\* parse_options; the command creates no repeat_poll, and the step that
\* receives it changes neither the store, nor the polls (so no close task),
\* nor the counters.
C16_TooManyOptionsRefused ==
    /\ [](\A c \in DOMAIN commands :
            commands[c].labels > MaxParsedOptions =>
                (commands[c].raised /\ Len(loops) < Len(commands)))
    /\ [][(commands' # commands /\ commands'[Len(commands')].labels > MaxParsedOptions) =>
            UNCHANGED <<stored, polls, loops, total_poll_count, closed_poll_count>>]_vars

\* A command with one label more than the maximum was refused.
C16_Witness ==
    \E c \in DOMAIN commands :
        /\ commands[c].labels = MaxParsedOptions + 1
        /\ commands[c].raised
        /\ loops = <<>> /\ polls = <<>> /\ stored = <<>>
        /\ total_poll_count = 0

\* C17: the poll never has more than MAX_OPTIONS options, in memory or in
\* the store, however the add_poll_option requests interleave; and a request
\* made on a poll with MAX_OPTIONS options fails.
C17_OptionsWithinCap ==
    /\ options <= MAX_OPTIONS
    /\ option_rows <= MAX_OPTIONS
    /\ \A t \in Tasks :
          (tasks[t].op = "add_poll_option" /\ tasks[t].cur >= MAX_OPTIONS) =>
              tasks[t].pc = "raised"

\* C21: a repeat_poll started with a repeat interval and no expiry, whose
\* polls Poll.create_poll accepts, does not end abnormally: it is never ended by an exception, and once its first
\* new_poll has returned it has counted the round and sleeps for the
\* interval (or has returned, its count exhausted).
C21_RepeatWithoutExpiryGoesOn ==
    \A l \in DOMAIN loops :
        ( /\ loops[l].repeat_time # None
          /\ loops[l].first_expires = None
          /\ loops[l].creatable ) =>
            /\ loops[l].pc # "crashed"
            /\ loops[l].count >= 1 => loops[l].pc \in {"sleep", "create", "failed", "update", "done"}

====
